---- MODULE Spec2Model ----
(***************************************************************************)
(* A model of AMANDA_Core (src/AMANDA.py): the three constraint evaluators *)
(* analyze_digital_constraints, analyze_physical_constraints and           *)
(* analyze_constitutional_constraints.  Each evaluator is a state machine  *)
(* over its input record, its local variables and the report it builds.    *)
(***************************************************************************)
EXTENDS Integers, Sequences, FiniteSets, TLC

VARIABLES
    \* analyze_digital_constraints
    app_components,      \* data.app_components (list of ApplicationComponent)
    raw_touch_data,      \* data.raw_touch_data (list of touch dicts)
    i,                   \* number of touches the for loop has processed
    touched_component,   \* index in app_components of the match of the last touch, 0 = None
    d_report,            \* analysis_report of analyze_digital_constraints
    d_pc,                \* "loop" | "done"
    \* analyze_physical_constraints
    user_position_m, user_velocity_mps, door_coords_m,
    p_report, time_to_door_sec, p_pc,
    \* analyze_constitutional_constraints
    applicable_laws, vehicle_speed_data_mph, vehicle_proximity_to_zone_m,
    max_safe_decel_mps2,
    law_idx,               \* number of laws the selection loop has scanned
    most_restrictive_law,  \* index in applicable_laws, 0 = None
    min_limit_mph,         \* <<>> for float('inf'), <<v>> for the limit v
    distance_to_slow_safely, \* <<>> until computed, then <<num, den>>
    c_report, c_pc

dvars == <<app_components, raw_touch_data, i, touched_component, d_report, d_pc>>
pvars == <<user_position_m, user_velocity_mps, door_coords_m, p_report,
           time_to_door_sec, p_pc>>
cvars == <<applicable_laws, vehicle_speed_data_mph, vehicle_proximity_to_zone_m,
           max_safe_decel_mps2, law_idx, most_restrictive_law, min_limit_mph,
           distance_to_slow_safely, c_report, c_pc>>
vars == <<dvars, pvars, cvars>>

\* Sequences over S of length at most n.
SeqUpTo(S, n) == UNION {[1..k -> S] : k \in 0..n}

\* The evaluators share no state: while one runs, the others' variables rest.
PhysicalIdle ==
    /\ user_position_m = <<0, 0>> /\ user_velocity_mps = <<0, 0>>
    /\ door_coords_m = <<0, 0>> /\ p_report = <<>>
    /\ time_to_door_sec = "unset" /\ p_pc = "idle"

DigitalIdle ==
    /\ app_components = <<>> /\ raw_touch_data = <<>> /\ i = 0
    /\ touched_component = 0 /\ d_report = <<>> /\ d_pc = "idle"

LegalIdle ==
    /\ applicable_laws = <<>> /\ vehicle_speed_data_mph = 0
    /\ vehicle_proximity_to_zone_m = 0 /\ max_safe_decel_mps2 = 0
    /\ law_idx = 0 /\ most_restrictive_law = 0 /\ min_limit_mph = <<>>
    /\ distance_to_slow_safely = <<>> /\ c_report = <<>> /\ c_pc = "idle"

(***************************************************************************)
(* Digital evaluator                                                       *)
(***************************************************************************)
MaxComponents == 2
MaxTouches == 2

\* Python None for an absent 'component_id_detected' (touch.get returns None).
NONE == "<None>"

\* [xmin, ymin, xmax, ymax]; the two boxes overlap in the point (1, 1).
BoxA == <<0, 0, 1, 1>>
BoxB == <<1, 1, 2, 1>>

ApplicationComponent ==
    { [component_id |-> "Button_A", bounding_box |-> BoxA, expected_event_type |-> "onClick"],
      [component_id |-> "Button_B", bounding_box |-> BoxB, expected_event_type |-> "onDrag"],
      [component_id |-> "Button_A", bounding_box |-> BoxB, expected_event_type |-> "onClick"] }

\* touch positions: in BoxA only, in both boxes, in BoxB only, in neither
Points == {<<0, 0>>, <<1, 1>>, <<2, 1>>, <<2, 0>>}
\* reported ids: absent, the empty string, and the id of a component
DetectedIds == {NONE, "", "Button_A"}

TouchEvent ==
    { [x |-> p[1], y |-> p[2], event_fired |-> f, component_id_detected |-> d] :
        p \in Points, f \in BOOLEAN, d \in DetectedIds }

\* Python truthiness of touch.get('component_id_detected'): None and '' are falsy.
Truthy(v) == v # NONE /\ v # ""

\* A faulty variant of InBox: the right and bottom edges are exclusive.
InBox_ExclusiveMax(component, x, y) ==
    LET xmin == component.bounding_box[1]
        ymin == component.bounding_box[2]
        xmax == component.bounding_box[3]
        ymax == component.bounding_box[4]
    IN  xmin <= x /\ x < xmax /\ ymin <= y /\ y < ymax

\* xmin <= x <= xmax and ymin <= y <= ymax
InBox(component, x, y) ==
    LET xmin == component.bounding_box[1]
        ymin == component.bounding_box[2]
        xmax == component.bounding_box[3]
        ymax == component.bounding_box[4]
    IN  xmin <= x /\ x <= xmax /\ ymin <= y /\ y <= ymax

\* for component in data.app_components: if ...: touched_component = component; break
RECURSIVE ScanComponents(_, _, _, _)
ScanComponents(components, x, y, j) ==
    IF j > Len(components) THEN 0
    ELSE IF InBox(components[j], x, y) THEN j
    ELSE ScanComponents(components, x, y, j + 1)

FindTouchedComponent(components, x, y) == ScanComponents(components, x, y, 1)

DeadSpaceDirective(n, touch) ==
    [kind |-> "dead_space", touch_no |-> n, x |-> touch.x, y |-> touch.y]

MismatchDirective(n, touch, component) ==
    [kind |-> "boundary_mismatch", touch_no |-> n, x |-> touch.x, y |-> touch.y,
     component_id |-> component.component_id,
     detected |-> touch.component_id_detected]

NoEventDirective(n, component) ==
    [kind |-> "no_event", touch_no |-> n,
     component_id |-> component.component_id,
     expected_event_type |-> component.expected_event_type]

\* A faulty variant of IsBoundaryMismatch: the guard on a missing id is dropped.
IsBoundaryMismatch_NoGuard(touch, component) ==
    touch.component_id_detected # component.component_id

\* if component_id_detected and component_id_detected != touched_component.component_id
IsBoundaryMismatch(touch, component) ==
    /\ Truthy(touch.component_id_detected)
    /\ touch.component_id_detected # component.component_id

\* if not event_fired
IsEventFailure(touch) == ~touch.event_fired

\* A faulty variant of OutOfBoundsReport: the "continue" is missing, so the touch
\* falls through to "valid_interaction += 1".
OutOfBoundsReport_NoContinue(report, n, touch) ==
    [report EXCEPT
        !.out_of_bounds_touch = @ + 1,
        !.valid_interaction = @ + 1,
        !.directives = Append(@, DeadSpaceDirective(n, touch))]

\* Case 1 (touched_component is None): count, emit the dead-space directive, continue.
OutOfBoundsReport(report, n, touch) ==
    [report EXCEPT
        !.out_of_bounds_touch = @ + 1,
        !.directives = Append(@, DeadSpaceDirective(n, touch))]

\* A faulty variant of ValidReport: sub-case B is an "elif" of sub-case A.
ValidReport_Elif(report, n, touch, component) ==
    LET mism == IsBoundaryMismatch(touch, component)
        fail == ~mism /\ IsEventFailure(touch)
        d1 == IF mism THEN <<MismatchDirective(n, touch, component)>> ELSE <<>>
        d2 == IF fail THEN <<NoEventDirective(n, component)>> ELSE <<>>
    IN  [report EXCEPT
            !.valid_interaction = @ + 1,
            !.boundary_mismatch = IF mism THEN @ + 1 ELSE @,
            !.no_event_fired_error = IF fail THEN @ + 1 ELSE @,
            !.directives = @ \o d1 \o d2]

\* A faulty variant of ValidReport: a touch that is both a mismatch and a missing
\* event is counted in both counters but emits the mismatch directive only.
ValidReport_OneDirective(report, n, touch, component) ==
    LET mism == IsBoundaryMismatch(touch, component)
        fail == IsEventFailure(touch)
        d1 == IF mism THEN <<MismatchDirective(n, touch, component)>> ELSE <<>>
        d2 == IF fail /\ ~mism THEN <<NoEventDirective(n, component)>> ELSE <<>>
    IN  [report EXCEPT
            !.valid_interaction = @ + 1,
            !.boundary_mismatch = IF mism THEN @ + 1 ELSE @,
            !.no_event_fired_error = IF fail THEN @ + 1 ELSE @,
            !.directives = @ \o d1 \o d2]

\* Case 2: valid_interaction += 1, then sub-case A and sub-case B, each on its own.
ValidReport(report, n, touch, component) ==
    LET mism == IsBoundaryMismatch(touch, component)
        fail == IsEventFailure(touch)
        d1 == IF mism THEN <<MismatchDirective(n, touch, component)>> ELSE <<>>
        d2 == IF fail THEN <<NoEventDirective(n, component)>> ELSE <<>>
    IN  [report EXCEPT
            !.valid_interaction = @ + 1,
            !.boundary_mismatch = IF mism THEN @ + 1 ELSE @,
            !.no_event_fired_error = IF fail THEN @ + 1 ELSE @,
            !.directives = @ \o d1 \o d2]

\* A faulty variant of ReportAfterTouch: case 1 ends in "break" instead of
\* "continue", so no touch after the first out-of-bounds touch is processed.
ReportAfterTouch_Break(report, components, n, touch) ==
    LET j == FindTouchedComponent(components, touch.x, touch.y)
    IN  IF report.out_of_bounds_touch > 0
        THEN report
        ELSE IF j = 0
        THEN OutOfBoundsReport(report, n, touch)
        ELSE ValidReport(report, n, touch, components[j])

\* The report after one more iteration of the loop over the touches.
ReportAfterTouch(report, components, n, touch) ==
    LET j == FindTouchedComponent(components, touch.x, touch.y)
    IN  IF j = 0
        THEN OutOfBoundsReport(report, n, touch)
        ELSE ValidReport(report, n, touch, components[j])

DigitalInitialReport(touches) ==
    [total_touches |-> Len(touches),
     valid_interaction |-> 0,
     boundary_mismatch |-> 0,
     no_event_fired_error |-> 0,
     out_of_bounds_touch |-> 0,
     directives |-> <<>>]

\* The loop over touches[k..], started on report.
RECURSIVE LoopOverTouches(_, _, _, _)
LoopOverTouches(report, components, touches, k) ==
    IF k > Len(touches) THEN report
    ELSE LoopOverTouches(ReportAfterTouch(report, components, k, touches[k]),
                         components, touches, k + 1)

\* analyze_digital_constraints as a function of its input: the returned report.
AnalyzeDigital(components, touches) ==
    LoopOverTouches(DigitalInitialReport(touches), components, touches, 1)

DigitalInit ==
    /\ app_components \in SeqUpTo(ApplicationComponent, MaxComponents)
    /\ raw_touch_data \in SeqUpTo(TouchEvent, MaxTouches)
    /\ i = 0
    /\ touched_component = 0
    /\ d_report = DigitalInitialReport(raw_touch_data)
    /\ d_pc = "loop"

\* One iteration of "for i, touch in enumerate(data.raw_touch_data)".
ProcessTouch ==
    /\ d_pc = "loop"
    /\ i < Len(raw_touch_data)
    /\ LET touch == raw_touch_data[i + 1]
       IN  /\ touched_component' = FindTouchedComponent(app_components, touch.x, touch.y)
           /\ d_report' = ReportAfterTouch(d_report, app_components, i + 1, touch)
    /\ i' = i + 1
    /\ UNCHANGED <<app_components, raw_touch_data, d_pc>>

\* return analysis_report
DigitalReturn ==
    /\ d_pc = "loop"
    /\ i = Len(raw_touch_data)
    /\ d_pc' = "done"
    /\ UNCHANGED <<app_components, raw_touch_data, i, touched_component, d_report>>

DigitalNext ==
    \/ ProcessTouch /\ UNCHANGED <<pvars, cvars>>
    \/ DigitalReturn /\ UNCHANGED <<pvars, cvars>>

InitDigital == DigitalInit /\ PhysicalIdle /\ LegalIdle

SpecDigital == InitDigital /\ [][DigitalNext]_vars

(***************************************************************************)
(* Properties of the digital evaluator                                     *)
(***************************************************************************)
\* The box of component c contains the position of touch t, edges included.
Covers(c, t) ==
    /\ c.bounding_box[1] <= t.x /\ t.x <= c.bounding_box[3]
    /\ c.bounding_box[2] <= t.y /\ t.y <= c.bounding_box[4]

CoveredBySome(t) == \E k \in 1..Len(app_components) : Covers(app_components[k], t)

\* The first component, in list order, whose box contains touch t.
FirstCovering(t) ==
    app_components[CHOOSE k \in 1..Len(app_components) :
        /\ Covers(app_components[k], t)
        /\ \A m \in 1..(k - 1) : ~Covers(app_components[m], t)]

LastTouch == raw_touch_data[i]

CountKind(directives, kind) ==
    Cardinality({k \in 1..Len(directives) : directives[k].kind = kind})

\* C1: after every processed touch out_of_bounds_touch + valid_interaction is the
\* number of touches processed so far, and in the returned report it is total_touches.
C1_TouchesPartitioned ==
    /\ d_report.out_of_bounds_touch + d_report.valid_interaction = i
    /\ d_pc = "done" =>
          d_report.out_of_bounds_touch + d_report.valid_interaction
              = d_report.total_touches

C1_Witness ==
    /\ d_pc = "done"
    /\ d_report.total_touches = MaxTouches
    /\ d_report.out_of_bounds_touch >= 1
    /\ d_report.valid_interaction >= 1

\* C2: the component matched to a touch is the first one in list order whose box
\* contains it (all four edges inclusive); a touch is counted out-of-bounds exactly
\* when no box contains it, so with no components every touch is out-of-bounds.
C2_FirstMatchInclusive ==
    /\ i >= 1 =>
        LET j == touched_component
        IN  /\ j \in 0..Len(app_components)
            /\ j # 0 => /\ Covers(app_components[j], LastTouch)
                        /\ \A k \in 1..(j - 1) : ~Covers(app_components[k], LastTouch)
            /\ j = 0 => ~CoveredBySome(LastTouch)
    /\ d_report.out_of_bounds_touch
          = Cardinality({k \in 1..i : ~CoveredBySome(raw_touch_data[k])})
    /\ app_components = <<>> => d_report.out_of_bounds_touch = i

\* a touch on an edge of two overlapping boxes of different components
C2_Witness ==
    /\ i >= 1
    /\ Len(app_components) = 2
    /\ app_components[1] # app_components[2]
    /\ Covers(app_components[1], LastTouch)
    /\ Covers(app_components[2], LastTouch)
    /\ LastTouch.x = app_components[1].bounding_box[3]
    /\ touched_component = 1

\* What C3 says of one iteration of the loop; a reported id counts as "differing"
\* when differs(detected, component_id) holds.
C3_Iteration(differs(_, _)) ==
    (i' = i + 1 /\ CoveredBySome(raw_touch_data[i + 1])
                /\ ~raw_touch_data[i + 1].event_fired) =>
        LET t == raw_touch_data[i + 1]
            c == FirstCovering(t)
            ds == d_report'.directives
        IN  /\ d_report'.no_event_fired_error = d_report.no_event_fired_error + 1
            /\ CountKind(ds, "no_event") = CountKind(d_report.directives, "no_event") + 1
            /\ ds # <<>>
            /\ ds[Len(ds)] = [kind |-> "no_event", touch_no |-> i + 1,
                              component_id |-> c.component_id,
                              expected_event_type |-> c.expected_event_type]
            /\ differs(t.component_id_detected, c.component_id) =>
                  d_report'.boundary_mismatch = d_report.boundary_mismatch + 1

DiffersAndPresent(detected, id) == detected # NONE /\ detected # id
DiffersAndNonEmpty(detected, id) == detected # NONE /\ detected # "" /\ detected # id

\* C3 as stated: a touch inside a matched component with event_fired = false adds one
\* to no_event_fired_error and appends one diagnostic naming the matched component's
\* expected_event_type; if its reported id differs from the matched component's id,
\* boundary_mismatch is incremented by the same touch as well.
C3_AsStated == [][C3_Iteration(DiffersAndPresent)]_vars

\* C3 amended: the same, for a reported id that is non-empty and differs.
C3_MissingEventAlwaysCounted == [][C3_Iteration(DiffersAndNonEmpty)]_vars

C3_Witness ==
    /\ i >= 1
    /\ CoveredBySome(LastTouch)
    /\ ~LastTouch.event_fired
    /\ DiffersAndNonEmpty(LastTouch.component_id_detected,
                          FirstCovering(LastTouch).component_id)
    /\ d_report.boundary_mismatch >= 1
    /\ d_report.no_event_fired_error >= 1

\* C4: a touch inside a component's box whose reported id is absent or equal to the
\* matched component's id, with event_fired = true, adds one to valid_interaction
\* and changes no other counter and no directive.
C4_Iteration ==
    (/\ i' = i + 1
     /\ CoveredBySome(raw_touch_data[i + 1])
     /\ raw_touch_data[i + 1].event_fired
     /\ \/ raw_touch_data[i + 1].component_id_detected = NONE
        \/ raw_touch_data[i + 1].component_id_detected
              = FirstCovering(raw_touch_data[i + 1]).component_id) =>
        /\ d_report'.valid_interaction = d_report.valid_interaction + 1
        /\ d_report'.boundary_mismatch = d_report.boundary_mismatch
        /\ d_report'.no_event_fired_error = d_report.no_event_fired_error
        /\ d_report'.out_of_bounds_touch = d_report.out_of_bounds_touch
        /\ d_report'.directives = d_report.directives
        /\ d_report'.total_touches = d_report.total_touches

C4_CleanTouchOnlyValid == [][C4_Iteration]_vars

\* two clean touches: the first reports no id, the second the matched component's id
C4_Witness ==
    /\ i = 2
    /\ \A k \in 1..2 : CoveredBySome(raw_touch_data[k]) /\ raw_touch_data[k].event_fired
    /\ raw_touch_data[1].component_id_detected = NONE
    /\ raw_touch_data[2].component_id_detected
          = FirstCovering(raw_touch_data[2]).component_id
    /\ d_report.valid_interaction = 2
    /\ d_report.directives = <<>>

\* the permutations of 1..n
Perms(n) == {f \in [1..n -> 1..n] : \A a, b \in 1..n : f[a] = f[b] => a = b}

\* the touches in the order given by permutation f
Permuted(touches, f) == [k \in 1..Len(touches) |-> touches[f[k]]]

Counts(report) ==
    <<report.valid_interaction, report.boundary_mismatch, report.no_event_fired_error,
      report.out_of_bounds_touch, report.total_touches>>

\* sequences a and b hold the same elements, each as often
SameBag(a, b) ==
    /\ Len(a) = Len(b)
    /\ \E f \in Perms(Len(a)) : \A k \in 1..Len(a) : a[k] = b[f[k]]

\* a directive without the number of the touch it is about
WithoutTouchNo(directive) == [directive EXCEPT !.touch_no = 0]

WithoutTouchNos(directives) ==
    [k \in 1..Len(directives) |-> WithoutTouchNo(directives[k])]

\* C11 as stated: for a fixed component list, every permutation of the touches
\* yields the same valid_interaction, boundary_mismatch, no_event_fired_error,
\* out_of_bounds_touch and total_touches, and the same directives in another order.
C11_AsStated ==
    d_pc = "done" =>
        \A f \in Perms(Len(raw_touch_data)) :
            LET other == AnalyzeDigital(app_components, Permuted(raw_touch_data, f))
            IN  /\ Counts(other) = Counts(d_report)
                /\ SameBag(other.directives, d_report.directives)

\* C11 amended: every permutation of the touches yields the same five counts, and
\* the same directives in another order once the touch number each directive
\* carries ("Touch #n") is left out.
C11_CountsIgnoreTouchOrder ==
    d_pc = "done" =>
        \A f \in Perms(Len(raw_touch_data)) :
            LET other == AnalyzeDigital(app_components, Permuted(raw_touch_data, f))
            IN  /\ Counts(other) = Counts(d_report)
                /\ SameBag(WithoutTouchNos(other.directives),
                           WithoutTouchNos(d_report.directives))

\* an out-of-bounds touch followed by a valid touch with a missing event: swapping
\* them swaps the two directives
C11_Witness ==
    /\ d_pc = "done"
    /\ Len(raw_touch_data) = 2
    /\ ~CoveredBySome(raw_touch_data[1])
    /\ CoveredBySome(raw_touch_data[2])
    /\ ~raw_touch_data[2].event_fired
    /\ Len(d_report.directives) >= 2
    /\ d_report.directives[1].kind = "dead_space"
    /\ AnalyzeDigital(app_components,
                      <<raw_touch_data[2], raw_touch_data[1]>>).directives[1].kind
          # "dead_space"

\* C12: after any prefix of the touches, directives has out_of_bounds_touch +
\* boundary_mismatch + no_event_fired_error entries (one of its kind per count),
\* and boundary_mismatch and no_event_fired_error are each at most
\* valid_interaction: an out-of-bounds touch adds to neither.
C12_DirectivesMatchCounters ==
    /\ Len(d_report.directives)
          = d_report.out_of_bounds_touch + d_report.boundary_mismatch
              + d_report.no_event_fired_error
    /\ CountKind(d_report.directives, "dead_space") = d_report.out_of_bounds_touch
    /\ CountKind(d_report.directives, "boundary_mismatch") = d_report.boundary_mismatch
    /\ CountKind(d_report.directives, "no_event") = d_report.no_event_fired_error
    /\ d_report.boundary_mismatch <= d_report.valid_interaction
    /\ d_report.no_event_fired_error <= d_report.valid_interaction
    /\ d_report.boundary_mismatch
          <= Cardinality({k \in 1..i : CoveredBySome(raw_touch_data[k])})
    /\ d_report.no_event_fired_error
          <= Cardinality({k \in 1..i : CoveredBySome(raw_touch_data[k])})

\* a valid touch that is both a mismatch and a missing event, then an out-of-bounds
\* touch that reports a differing id and fired no event: three directives
C12_Witness ==
    /\ i = 2
    /\ CoveredBySome(raw_touch_data[1])
    /\ ~CoveredBySome(raw_touch_data[2])
    /\ ~raw_touch_data[2].event_fired
    /\ raw_touch_data[2].component_id_detected = "Button_A"
    /\ d_report.valid_interaction = 1
    /\ d_report.boundary_mismatch = 1
    /\ d_report.no_event_fired_error = 1
    /\ d_report.out_of_bounds_touch = 1
    /\ Len(d_report.directives) = 3

(***************************************************************************)
(* Physical evaluator.  Lengths are in half metres and velocities in half  *)
(* metres per second, so that the range of 1.5 m is the integer 3 and the  *)
(* squares the code takes the root of are integers.                        *)
(***************************************************************************)
MaxPos == 3
MaxVel == 1

\* DOOR_INTERACTION_RANGE_M = 1.5, in half metres
DOOR_INTERACTION_RANGE_HALF_M == 3

DEFAULT_PREDICTION == [text |-> "No imminent door interaction detected."]

\* "directive_signal": None
NoSignal == <<>>

Position == (0..MaxPos) \X (0..MaxPos)
Velocity == ((0 - MaxVel)..MaxVel) \X ((0 - MaxVel)..MaxVel)

\* (dx - ux)**2 + (dy - uy)**2, the square of distance_to_door
DistanceSq(u, d) == (d[1] - u[1]) * (d[1] - u[1]) + (d[2] - u[2]) * (d[2] - u[2])

\* A faulty variant of WithinRange: the range itself counts as within.
WithinRange_Inclusive(distance_sq) ==
    distance_sq <= DOOR_INTERACTION_RANGE_HALF_M * DOOR_INTERACTION_RANGE_HALF_M

\* distance_to_door < DOOR_INTERACTION_RANGE_M; math.sqrt is monotone and exact at
\* the range, so the roots compare as the squares do.
WithinRange(distance_sq) ==
    distance_sq < DOOR_INTERACTION_RANGE_HALF_M * DOOR_INTERACTION_RANGE_HALF_M

\* is_approaching = (vx * (dx - ux) + vy * (dy - uy)) > 0
IsApproaching(u, v, d) == v[1] * (d[1] - u[1]) + v[2] * (d[2] - u[2]) > 0

\* distance_to_door / math.sqrt(vx**2 + vy**2) if (vx**2 + vy**2) > 0 else float('inf'),
\* kept as the pair of squares whose quotient is the square of the time.
TimeToDoor(u, v, d) ==
    IF v[1] * v[1] + v[2] * v[2] > 0
    THEN [distance_sq |-> DistanceSq(u, d), speed_sq |-> v[1] * v[1] + v[2] * v[2]]
    ELSE "inf"

ApproachPrediction(u, v, d) ==
    [text |-> "User is approaching the door", door |-> d,
     distance_sq |-> DistanceSq(u, d), time_to_door |-> TimeToDoor(u, v, d)]

DIRECTIVE_SIGNAL ==
    [device |-> "Apple Watch", action |-> "Haptic/Audio Cue",
     message |-> "Reach out and open the door."]

PhysicalInit ==
    /\ user_position_m \in Position
    /\ user_velocity_mps \in Velocity
    /\ door_coords_m \in Position
    /\ p_report = [prediction |-> DEFAULT_PREDICTION, directive_signal |-> NoSignal]
    /\ time_to_door_sec = "unset"
    /\ p_pc = "start"

\* distance_to_door >= DOOR_INTERACTION_RANGE_M: the report is returned as built.
PhysicalOutOfRange ==
    /\ p_pc = "start"
    /\ ~WithinRange(DistanceSq(user_position_m, door_coords_m))
    /\ p_pc' = "done"
    /\ UNCHANGED <<user_position_m, user_velocity_mps, door_coords_m, p_report,
                   time_to_door_sec>>

\* within range, is_approaching false: the report is returned as built.
PhysicalNotApproaching ==
    /\ p_pc = "start"
    /\ WithinRange(DistanceSq(user_position_m, door_coords_m))
    /\ ~IsApproaching(user_position_m, user_velocity_mps, door_coords_m)
    /\ p_pc' = "done"
    /\ UNCHANGED <<user_position_m, user_velocity_mps, door_coords_m, p_report,
                   time_to_door_sec>>

\* within range and approaching: prediction and directive_signal are set.
PhysicalApproaching ==
    /\ p_pc = "start"
    /\ WithinRange(DistanceSq(user_position_m, door_coords_m))
    /\ IsApproaching(user_position_m, user_velocity_mps, door_coords_m)
    /\ time_to_door_sec' = TimeToDoor(user_position_m, user_velocity_mps, door_coords_m)
    /\ p_report' = [prediction |-> ApproachPrediction(user_position_m,
                                      user_velocity_mps, door_coords_m),
                    directive_signal |-> DIRECTIVE_SIGNAL]
    /\ p_pc' = "done"
    /\ UNCHANGED <<user_position_m, user_velocity_mps, door_coords_m>>

PhysicalNext ==
    \/ PhysicalOutOfRange /\ UNCHANGED <<dvars, cvars>>
    \/ PhysicalNotApproaching /\ UNCHANGED <<dvars, cvars>>
    \/ PhysicalApproaching /\ UNCHANGED <<dvars, cvars>>

InitPhysical == PhysicalInit /\ DigitalIdle /\ LegalIdle

SpecPhysical == InitPhysical /\ [][PhysicalNext]_vars

(***************************************************************************)
(* Properties of the physical evaluator                                    *)
(***************************************************************************)
\* four times the squared distance in metres from position to target
FourDistSqM == DistanceSq(user_position_m, door_coords_m)

\* the dot product of the velocity with the vector from position to target
DotToTarget ==
    user_velocity_mps[1] * (door_coords_m[1] - user_position_m[1])
        + user_velocity_mps[2] * (door_coords_m[2] - user_position_m[2])

\* C9: directive_signal is non-null exactly when the distance to the target is
\* strictly below 1.5 (4 * distance^2 < 9) and the dot product is strictly positive;
\* in every other case the prediction is the default string and the signal is null.
C9_SignalIffNearAndApproaching ==
    p_pc = "done" =>
        /\ (p_report.directive_signal # NoSignal) <=> (FourDistSqM < 9 /\ DotToTarget > 0)
        /\ ~(FourDistSqM < 9 /\ DotToTarget > 0) =>
              /\ p_report.prediction = DEFAULT_PREDICTION
              /\ p_report.directive_signal = NoSignal

\* the farthest in-range target (two half-metre diagonals away), being approached
C9_Witness ==
    /\ p_pc = "done"
    /\ FourDistSqM = 8
    /\ DotToTarget > 0
    /\ p_report.directive_signal = DIRECTIVE_SIGNAL
    /\ p_report.prediction # DEFAULT_PREDICTION

(***************************************************************************)
(* Legal evaluator.  Speeds and limits are whole miles per hour, distances *)
(* whole metres; Optional[int] and the float that may be inf are tuples:   *)
(* <<>> is None (or inf) and <<v>> is the number v.                        *)
(***************************************************************************)
MaxLaws == 2

\* MPH_TO_MPS = 0.44704 = 1397 / 3125
MPH_TO_MPS_NUM == 1397
MPH_TO_MPS_DEN == 3125

Inf == <<>>
NoLimit == <<>>

LimitVals == {20, 60}
Sources == {"U.S. Constitution", "Texas Constitution"}
Priorities == {5, 10}

BaseConstitutionalLaw ==
    [source_constitution : Sources,
     law_description : {"Speed Regulation"},
     priority_level : Priorities,
     speed_limit_mph : {NoLimit} \cup {<<v>> : v \in LimitVals}]

\* just below, at and above 95% of each limit, at the limit and above it
Speeds == {18, 19, 20, 21, 57, 58, 60, 61}
Proximities == {-5, 0, 20}
Decelerations == {-1, 0, 4}

\* A faulty variant of LimitLess: a later law with an equal limit replaces the first.
LimitLess_OrEqual(limit, min_limit) == min_limit = Inf \/ limit <= min_limit[1]

\* law.speed_limit_mph < min_limit_mph, where min_limit_mph starts as float('inf')
LimitLess(limit, min_limit) == min_limit = Inf \/ limit < min_limit[1]

\* The limits for which the doubles of line 232 round apart when the speed is
\* exactly 95% of the limit: 19.0 * 0.44704 = 8.49376 is greater than
\* 20 * 0.44704 * 0.95 = 8.493759999999998, while 57.0 * 0.44704 and
\* 60 * 0.44704 * 0.95 are both 25.481279999999998.
RoundsAbove == {20}

\* A faulty variant of InBand: the speed in mph is compared with the limit in m/s.
InBand_UnconvertedSpeed(speed, limit) ==
    100 * speed * MPH_TO_MPS_DEN > 95 * limit * MPH_TO_MPS_NUM

\* current_speed_mps > limit_mps * 0.95, both sides being the mph values times
\* MPH_TO_MPS: the reals compare as 100 * speed and 95 * limit do, and at equality
\* the rounding of the doubles decides.
InBand(speed, limit) ==
    \/ 100 * speed > 95 * limit
    \/ 100 * speed = 95 * limit /\ limit \in RoundsAbove

\* a * MPH_TO_MPS**2 >= m for integers a and m, without leaving 32 bits
ScaledGE(a, m) ==
    LET A == a * MPH_TO_MPS_NUM
        q == A \div MPH_TO_MPS_DEN
        r == A % MPH_TO_MPS_DEN
    IN  q * MPH_TO_MPS_NUM + (r * MPH_TO_MPS_NUM) \div MPH_TO_MPS_DEN
            >= m * MPH_TO_MPS_DEN

\* (limit_mps**2 - current_speed_mps**2) / (2 * -decel_mps2) as the pair
\* <<limit**2 - speed**2, 2 * -decel>>: the distance is MPH_TO_MPS**2 * num / den.
DistanceToSlowSafely(speed, limit, decel) ==
    <<limit * limit - speed * speed, 2 * (0 - decel)>>

\* distance_to_slow_safely >= data.vehicle_proximity_to_zone_m
DistanceGE(distance, proximity) ==
    IF distance[2] > 0
    THEN ScaledGE(distance[1], proximity * distance[2])
    ELSE ScaledGE(0 - distance[1], 0 - proximity * distance[2])

AppliedLaw(law) == <<"Law from", law.source_constitution, law.law_description>>

LegalInitialReport(speed) ==
    [current_speed_mph |-> speed,
     applied_law |-> <<"N/A">>,
     required_limit_mph |-> Inf,
     is_currently_speeding |-> FALSE,
     warning_required |-> FALSE,
     directives |-> <<>>]

\* lines 217-218
WithLimit(report, limit, law) ==
    [report EXCEPT !.required_limit_mph = <<limit>>, !.applied_law = AppliedLaw(law)]

ExceedingDirective(limit, law) ==
    [kind |-> "currently_exceeding", limit |-> limit,
     source |-> law.source_constitution]

SlowDownDirective(speed, distance, limit, proximity) ==
    [kind |-> "slow_down_now", speed |-> speed, distance |-> distance,
     limit |-> limit, proximity |-> proximity]

NO_CONSTRAINT_DIRECTIVE == [kind |-> "no_constraint_found"]

LegalInit ==
    /\ applicable_laws \in SeqUpTo(BaseConstitutionalLaw, MaxLaws)
    /\ vehicle_speed_data_mph \in Speeds
    /\ vehicle_proximity_to_zone_m \in Proximities
    /\ max_safe_decel_mps2 \in Decelerations
    /\ law_idx = 0
    /\ most_restrictive_law = 0
    /\ min_limit_mph = Inf
    /\ distance_to_slow_safely = <<>>
    /\ c_report = LegalInitialReport(vehicle_speed_data_mph)
    /\ c_pc = "select"

inputs == <<applicable_laws, vehicle_speed_data_mph, vehicle_proximity_to_zone_m,
            max_safe_decel_mps2>>

\* One iteration of "for law in data.applicable_laws".
ScanLaw ==
    /\ c_pc = "select"
    /\ law_idx < Len(applicable_laws)
    /\ LET law == applicable_laws[law_idx + 1]
       IN  IF /\ law.speed_limit_mph # NoLimit
              /\ LimitLess(law.speed_limit_mph[1], min_limit_mph)
           THEN /\ min_limit_mph' = law.speed_limit_mph
                /\ most_restrictive_law' = law_idx + 1
           ELSE UNCHANGED <<min_limit_mph, most_restrictive_law>>
    /\ law_idx' = law_idx + 1
    /\ UNCHANGED <<inputs, distance_to_slow_safely, c_report, c_pc>>

\* A faulty variant of NoConstraint: the early return is missing, and line 218
\* reads an attribute of None.
NoConstraint_NoReturn ==
    /\ c_pc = "select"
    /\ law_idx = Len(applicable_laws)
    /\ most_restrictive_law = 0
    /\ c_report' = [c_report EXCEPT !.directives = Append(@, NO_CONSTRAINT_DIRECTIVE)]
    /\ c_pc' = "raised"
    /\ UNCHANGED <<inputs, law_idx, most_restrictive_law, min_limit_mph,
                   distance_to_slow_safely>>

\* if most_restrictive_law is None: one directive, return
NoConstraint ==
    /\ c_pc = "select"
    /\ law_idx = Len(applicable_laws)
    /\ most_restrictive_law = 0
    /\ c_report' = [c_report EXCEPT !.directives = Append(@, NO_CONSTRAINT_DIRECTIVE)]
    /\ c_pc' = "done"
    /\ UNCHANGED <<inputs, law_idx, most_restrictive_law, min_limit_mph,
                   distance_to_slow_safely>>

Selected ==
    /\ c_pc = "select"
    /\ law_idx = Len(applicable_laws)
    /\ most_restrictive_law # 0

\* The pre-emptive check of lines 234-242 on report: the distance is computed (a
\* deceleration of zero raises ZeroDivisionError) and compared with the zone distance.
PreemptiveCheck(report) ==
    LET limit == min_limit_mph[1]
        speed == vehicle_speed_data_mph
    IN  IF max_safe_decel_mps2 = 0
        THEN /\ c_pc' = "raised"
             /\ c_report' = report
             /\ UNCHANGED distance_to_slow_safely
        ELSE LET distance == DistanceToSlowSafely(speed, limit, max_safe_decel_mps2)
             IN  /\ distance_to_slow_safely' = distance
                 /\ c_pc' = "done"
                 /\ c_report' =
                      IF DistanceGE(distance, vehicle_proximity_to_zone_m)
                      THEN [report EXCEPT
                              !.warning_required = TRUE,
                              !.directives = Append(@, SlowDownDirective(speed,
                                  distance, limit, vehicle_proximity_to_zone_m))]
                      ELSE report

SpeedingReport(report, limit, law) ==
    [WithLimit(report, limit, law) EXCEPT
        !.is_currently_speeding = TRUE,
        !.warning_required = TRUE,
        !.directives = Append(@, ExceedingDirective(limit, law))]

\* A faulty variant of AlreadySpeeding: no return at the end of branch A, and
\* branch B an "if" of its own, so the pre-emptive check runs as well.
AlreadySpeeding_FallsThrough ==
    /\ Selected
    /\ vehicle_speed_data_mph > min_limit_mph[1]
    /\ PreemptiveCheck(SpeedingReport(c_report, min_limit_mph[1],
                                      applicable_laws[most_restrictive_law]))
    /\ UNCHANGED <<inputs, law_idx, most_restrictive_law, min_limit_mph>>

\* A. if data.vehicle_speed_data_mph > min_limit_mph: flags, one directive, return
AlreadySpeeding ==
    /\ Selected
    /\ vehicle_speed_data_mph > min_limit_mph[1]
    /\ c_report' = SpeedingReport(c_report, min_limit_mph[1],
                                  applicable_laws[most_restrictive_law])
    /\ c_pc' = "done"
    /\ UNCHANGED <<inputs, law_idx, most_restrictive_law, min_limit_mph,
                   distance_to_slow_safely>>

\* B. elif current_speed_mps > limit_mps * 0.95: the pre-emptive check
Preemptive ==
    /\ Selected
    /\ ~(vehicle_speed_data_mph > min_limit_mph[1])
    /\ InBand(vehicle_speed_data_mph, min_limit_mph[1])
    /\ PreemptiveCheck(WithLimit(c_report, min_limit_mph[1],
                                 applicable_laws[most_restrictive_law]))
    /\ UNCHANGED <<inputs, law_idx, most_restrictive_law, min_limit_mph>>

\* neither branch: return analysis_report
BelowBand ==
    /\ Selected
    /\ ~(vehicle_speed_data_mph > min_limit_mph[1])
    /\ ~InBand(vehicle_speed_data_mph, min_limit_mph[1])
    /\ c_report' = WithLimit(c_report, min_limit_mph[1],
                             applicable_laws[most_restrictive_law])
    /\ c_pc' = "done"
    /\ UNCHANGED <<inputs, law_idx, most_restrictive_law, min_limit_mph,
                   distance_to_slow_safely>>

LegalNext ==
    \/ ScanLaw /\ UNCHANGED <<dvars, pvars>>
    \/ NoConstraint /\ UNCHANGED <<dvars, pvars>>
    \/ AlreadySpeeding /\ UNCHANGED <<dvars, pvars>>
    \/ Preemptive /\ UNCHANGED <<dvars, pvars>>
    \/ BelowBand /\ UNCHANGED <<dvars, pvars>>

InitLegal == LegalInit /\ DigitalIdle /\ PhysicalIdle

SpecLegal == InitLegal /\ [][LegalNext]_vars

(***************************************************************************)
(* Properties of the legal evaluator                                       *)
(***************************************************************************)
\* the non-null limits of the applicable laws
DeclaredLimits ==
    {applicable_laws[k].speed_limit_mph[1] :
        k \in {n \in 1..Len(applicable_laws) : applicable_laws[n].speed_limit_mph # NoLimit}}

\* the least declared limit (when there is one)
LeastLimit == CHOOSE v \in DeclaredLimits : \A w \in DeclaredLimits : v <= w

\* the first law, in list order, that declares the least limit
FirstLeastLaw ==
    applicable_laws[CHOOSE k \in 1..Len(applicable_laws) :
        /\ applicable_laws[k].speed_limit_mph = <<LeastLimit>>
        /\ \A m \in 1..(k - 1) : applicable_laws[m].speed_limit_mph # <<LeastLimit>>]

LegalReturned == c_pc = "done"

\* the stopping-distance check was evaluated: the distance was computed, or the
\* division raised
CheckEvaluated == distance_to_slow_safely # <<>> \/ c_pc = "raised"

\* C5: when some law has a non-null limit, required_limit_mph is the minimum
\* non-null limit, whatever the order and the priority levels of the laws, and
\* applied_law names the first law in list order that attains it.
C5_MinimumLimitFirstLaw ==
    (DeclaredLimits # {} /\ law_idx = Len(applicable_laws)) =>
        /\ min_limit_mph = <<LeastLimit>>
        /\ applicable_laws[most_restrictive_law] = FirstLeastLaw
        /\ LegalReturned =>
             /\ c_report.required_limit_mph = <<LeastLimit>>
             /\ c_report.applied_law =
                  <<"Law from", FirstLeastLaw.source_constitution,
                    FirstLeastLaw.law_description>>

\* two laws attain the minimum; the second has the higher priority and another source
C5_Witness ==
    /\ LegalReturned
    /\ Len(applicable_laws) = 2
    /\ applicable_laws[1].speed_limit_mph = <<20>>
    /\ applicable_laws[2].speed_limit_mph = <<20>>
    /\ applicable_laws[1].priority_level < applicable_laws[2].priority_level
    /\ applicable_laws[1].source_constitution # applicable_laws[2].source_constitution
    /\ c_report.applied_law[2] = applicable_laws[1].source_constitution

\* the least limit comes last and has the lower priority
C5_WitnessOrder ==
    /\ LegalReturned
    /\ Len(applicable_laws) = 2
    /\ applicable_laws[1].speed_limit_mph = <<60>>
    /\ applicable_laws[2].speed_limit_mph = <<20>>
    /\ applicable_laws[2].priority_level < applicable_laws[1].priority_level
    /\ c_report.required_limit_mph = <<20>>

\* C6: when the speed strictly exceeds the selected limit the call returns with
\* is_currently_speeding and warning_required true and exactly one directive, the
\* "currently exceeding" one; the stopping-distance check is not evaluated, and the
\* report is a function of the speed and the laws alone.
C6_SpeedingSkipsCheck ==
    (/\ c_pc \in {"done", "raised"}
     /\ DeclaredLimits # {}
     /\ vehicle_speed_data_mph > LeastLimit) =>
        /\ LegalReturned
        /\ ~CheckEvaluated
        /\ c_report =
             [current_speed_mph |-> vehicle_speed_data_mph,
              applied_law |-> <<"Law from", FirstLeastLaw.source_constitution,
                                FirstLeastLaw.law_description>>,
              required_limit_mph |-> <<LeastLimit>>,
              is_currently_speeding |-> TRUE,
              warning_required |-> TRUE,
              directives |-> <<[kind |-> "currently_exceeding",
                                limit |-> LeastLimit,
                                source |-> FirstLeastLaw.source_constitution]>>]

\* speeding, with a deceleration of zero and the zone already reached
C6_Witness ==
    /\ LegalReturned
    /\ c_report.is_currently_speeding
    /\ Len(c_report.directives) = 1
    /\ max_safe_decel_mps2 = 0
    /\ vehicle_proximity_to_zone_m <= 0

\* What C7 says of a call that ended with the speed not above the selected limit;
\* inside(speed, limit) is where the check is claimed to be performed and
\* outside(speed, limit) where it is claimed not to be.
C7_Statement(inside(_, _), outside(_, _)) ==
    (/\ c_pc \in {"done", "raised"}
     /\ DeclaredLimits # {}
     /\ vehicle_speed_data_mph <= LeastLimit) =>
        /\ inside(vehicle_speed_data_mph, LeastLimit) => CheckEvaluated
        /\ outside(vehicle_speed_data_mph, LeastLimit) =>
             /\ ~CheckEvaluated
             /\ LegalReturned
             /\ ~c_report.warning_required
             /\ c_report.directives = <<>>

AtLeast95(speed, limit) == 100 * speed >= 95 * limit
Above95(speed, limit) == 100 * speed > 95 * limit
Below95(speed, limit) == 100 * speed < 95 * limit

\* C7 as stated: with the speed not above the limit, the stopping-distance check is
\* performed exactly when the speed is at least 95% of the limit (95% itself is in
\* the band); below 95% there is no warning and no directive.
C7_AsStated == C7_Statement(AtLeast95, Below95)

\* C7 amended: the check is performed whenever the speed is strictly above 95% of
\* the limit and never when it is strictly below; below 95% there is no warning and
\* no directive.  At exactly 95% the rounding of the doubles decides: the check is
\* performed for speed 19 under limit 20 and not for speed 57 under limit 60.
C7_BandStrictlyAbove95 ==
    /\ C7_Statement(Above95, Below95)
    /\ (c_pc \in {"done", "raised"} /\ DeclaredLimits # {}) =>
          /\ (vehicle_speed_data_mph = 19 /\ LeastLimit = 20) => CheckEvaluated
          /\ (vehicle_speed_data_mph = 57 /\ LeastLimit = 60) => ~CheckEvaluated

\* speed 58 under a limit of 60: inside the band, the distance was computed
C7_Witness ==
    /\ LegalReturned
    /\ DeclaredLimits # {}
    /\ vehicle_speed_data_mph < LeastLimit
    /\ Above95(vehicle_speed_data_mph, LeastLimit)
    /\ distance_to_slow_safely # <<>>

\* speed 18 under a limit of 20: below the band
C7_WitnessBelow ==
    /\ LegalReturned
    /\ DeclaredLimits # {}
    /\ Below95(vehicle_speed_data_mph, LeastLimit)
    /\ 100 * vehicle_speed_data_mph >= 90 * LeastLimit
    /\ c_report.directives = <<>>

\* the sign of the computed stopping distance MPH_TO_MPS**2 * num / den
DistancePositive ==
    distance_to_slow_safely[1] * distance_to_slow_safely[2] > 0

\* C8: in the pre-emptive branch with a strictly positive deceleration the computed
\* stopping distance is positive, and for a positive distance-to-zone not above it
\* warning_required is true and a "slow down now" directive is emitted.
C8_AsStated ==
    (/\ LegalReturned
     /\ distance_to_slow_safely # <<>>
     /\ max_safe_decel_mps2 > 0) =>
        /\ DistancePositive
        /\ (/\ vehicle_proximity_to_zone_m > 0
            /\ DistanceGE(distance_to_slow_safely, vehicle_proximity_to_zone_m)) =>
              /\ c_report.warning_required
              /\ \E k \in 1..Len(c_report.directives) :
                     c_report.directives[k].kind = "slow_down_now"

\* What the code does there: the distance is never positive, so no positive
\* distance-to-zone ever triggers the warning.
C8_CodeDistanceNeverPositive ==
    (/\ LegalReturned
     /\ distance_to_slow_safely # <<>>
     /\ max_safe_decel_mps2 > 0) =>
        /\ ~DistancePositive
        /\ vehicle_proximity_to_zone_m > 0 =>
              /\ ~c_report.warning_required
              /\ c_report.directives = <<>>

C8_Reached ==
    /\ LegalReturned
    /\ distance_to_slow_safely # <<>>
    /\ max_safe_decel_mps2 > 0
    /\ vehicle_proximity_to_zone_m > 0
    /\ vehicle_speed_data_mph < min_limit_mph[1]

\* C10: when no law has a non-null limit (an empty list included) the call returns
\* normally, with the one directive "no constraint found", both flags false,
\* applied_law "N/A" and required_limit_mph left at infinity, whatever the speed,
\* the zone distance and the deceleration.
C10_NoLimitNoConstraint ==
    DeclaredLimits = {} =>
        /\ c_pc \in {"select", "done"}
        /\ ~CheckEvaluated
        /\ c_report.applied_law = <<"N/A">>
        /\ c_report.required_limit_mph = Inf
        /\ ~c_report.is_currently_speeding
        /\ ~c_report.warning_required
        /\ c_report.current_speed_mph = vehicle_speed_data_mph
        /\ c_report.directives =
             IF LegalReturned THEN <<[kind |-> "no_constraint_found"]>> ELSE <<>>

\* two laws without a limit, a deceleration of zero, the zone already reached
C10_Witness ==
    /\ LegalReturned
    /\ Len(applicable_laws) = 2
    /\ DeclaredLimits = {}
    /\ max_safe_decel_mps2 = 0
    /\ vehicle_proximity_to_zone_m <= 0
    /\ Len(c_report.directives) = 1

\* the empty law list
C10_WitnessEmpty ==
    /\ LegalReturned
    /\ applicable_laws = <<>>
    /\ Len(c_report.directives) = 1

====
